---------------------------- MODULE Spec2Model ----------------------------
(***************************************************************************)
(* Model of the Reddit/X sentiment analyzer                                *)
(* (src/reddit_x_sentiment_analyzer.py) and of the automated daily         *)
(* sentiment reporter (src/automated_daily_sentiment_reporter.py).         *)
(*                                                                         *)
(* Python strings are modelled as sequences of one-character strings, so   *)
(* that slicing, stripping, lower-casing and the regular expressions of    *)
(* the source are computed character by character.                         *)
(*                                                                         *)
(* Four specifications share the module:                                   *)
(*   Spec        main() of the analyzer: driver session, URL, scrape,      *)
(*               the per-text inference / log / delay loop, close          *)
(*   SpecParse   parse_sentiment_response applied to backend replies       *)
(*   SpecReport  the reporter: generate_daily_report, save_evidence_files  *)
(*   SpecScrape  one call of scrape_reddit_comments or scrape_x_replies    *)
(***************************************************************************)
EXTENDS Integers, Sequences, FiniteSets, TLC

VARIABLES
    \* ---- main() of the analyzer
    pc,         \* position of main()
    acquired,   \* number of driver sessions started (webdriver.Chrome)
    released,   \* TRUE once driver.quit() has been called
    csv,        \* the rows of the evidence CSV; <<>> while the file does not exist
    url,        \* the stripped user input
    platform,   \* result of detect_platform
    texts,      \* the scraped text units
    idx,        \* index of the text unit being processed (1-based)
    cur,        \* result of the last inference call
    events,     \* trace of the loop: "call", "ret", "row", "delay"
    outcome,    \* how main() ended / which error was reported
    \* ---- parse_sentiment_response
    response,   \* the backend reply handed to the parser
    parsed,     \* the parser's result
    ppc,        \* "call" before, "parsed" after
    \* ---- the reporter
    reddit_data,
    x_data,
    report,     \* result of generate_daily_report
    files,      \* files created in the evidence directory: name -> content
    rpc,        \* "start", "generated", "saved"
    \* ---- one call of an extractor
    extractor,  \* "reddit" (scrape_reddit_comments) or "x" (scrape_x_replies)
    page,       \* what the driver does during the call
    scraped,    \* what the call gives back: an exception or the sequence
    spc         \* "call" before, "returned" after

vars == <<pc, acquired, released, csv, url, platform, texts, idx, cur, events,
          outcome, response, parsed, ppc, reddit_data, x_data, report, files, rpc,
          extractor, page, scraped, spc>>

mainVars == <<pc, acquired, released, csv, url, platform, texts, idx, cur,
              events, outcome>>

parseVars == <<response, parsed, ppc>>

reportVars == <<reddit_data, x_data, report, files, rpc>>

scrapeVars == <<extractor, page, scraped, spc>>

-----------------------------------------------------------------------------
(* Strings                                                                 *)

LowerLetters == <<"a","b","c","d","e","f","g","h","i","j","k","l","m","n","o","p","q","r","s","t","u","v","w","x","y","z">>

UpperLetters == <<"A","B","C","D","E","F","G","H","I","J","K","L","M","N","O","P","Q","R","S","T","U","V","W","X","Y","Z">>

DigitChars == <<"0","1","2","3","4","5","6","7","8","9">>

Range(s) == {s[i] : i \in 1..Len(s)}

\* str.lower() on one character
LowerCh(c) ==
    IF \E i \in 1..26 : UpperLetters[i] = c
    THEN LowerLetters[CHOOSE i \in 1..26 : UpperLetters[i] = c]
    ELSE c

\* str.lower()
Lower(s) == [i \in 1..Len(s) |-> LowerCh(s[i])]

\* whitespace as matched by \s and removed by str.strip()
IsSpace(c) == c \in {" ", "\t", "\n", "\r"}

IsDigit(c) == c \in Range(DigitChars)

\* \w
IsWord(c) == c \in Range(LowerLetters) \cup Range(UpperLetters) \cup Range(DigitChars) \cup {"_"}

\* [0-9.]
IsDigitOrDot(c) == IsDigit(c) \/ c = "."

Min(a, b) == IF a <= b THEN a ELSE b

\* s[:n]
Take(s, n) == SubSeq(s, 1, Min(n, Len(s)))

\* str.strip()
Strip(s) ==
    IF \A i \in 1..Len(s) : IsSpace(s[i]) THEN <<>>
    ELSE LET first == CHOOSE i \in 1..Len(s) :
                          ~IsSpace(s[i]) /\ \A j \in 1..(i-1) : IsSpace(s[j])
             back  == CHOOSE k \in 0..(Len(s)-1) :
                          ~IsSpace(s[Len(s)-k]) /\ \A j \in 0..(k-1) : IsSpace(s[Len(s)-j])
         IN  SubSeq(s, first, Len(s) - back)

\* sub in s
Contains(s, sub) ==
    \E i \in 1..(Len(s) - Len(sub) + 1) : SubSeq(s, i, i + Len(sub) - 1) = sub

\* a string of n copies of character c
Repeat(c, n) == [i \in 1..n |-> c]

-----------------------------------------------------------------------------
(* parse_sentiment_response (analyzer, lines 217-242)                      *)

\* the label of a pattern, matched with re.IGNORECASE at position i of s
LabelAt(s, lab, i) ==
    /\ i + Len(lab) - 1 <= Len(s)
    /\ \A k \in 1..Len(lab) : LowerCh(s[i + k - 1]) = lab[k]

\* \s* (greedy) from position j: the first position that holds no whitespace
SkipSpaces(s, j) ==
    IF \E k \in j..Len(s) : ~IsSpace(s[k])
    THEN CHOOSE k \in j..Len(s) : ~IsSpace(s[k]) /\ \A m \in j..(k-1) : IsSpace(s[m])
    ELSE Len(s) + 1

\* (\w+) from position j: the last position of the run of word characters
WordRunEnd(s, j) ==
    CHOOSE k \in j..Len(s) :
        /\ \A m \in j..k : IsWord(s[m])
        /\ (k = Len(s) \/ ~IsWord(s[k + 1]))

\* ([0-9.]+) from position j
NumRunEnd(s, j) ==
    CHOOSE k \in j..Len(s) :
        /\ \A m \in j..k : IsDigitOrDot(s[m])
        /\ (k = Len(s) \/ ~IsDigitOrDot(s[k + 1]))

NoMatch == [found |-> FALSE, group |-> <<>>]

\* re.search(r'Sentiment:\s*(\w+)', response, re.IGNORECASE)
SentimentSearch(s) ==
    LET lab == <<"s","e","n","t","i","m","e","n","t",":">>
        ok(i) == /\ LabelAt(s, lab, i)
                 /\ SkipSpaces(s, i + Len(lab)) <= Len(s)
                 /\ IsWord(s[SkipSpaces(s, i + Len(lab))])
    IN  IF \E i \in 1..Len(s) : ok(i)
        THEN LET i == CHOOSE i \in 1..Len(s) : ok(i) /\ \A h \in 1..(i-1) : ~ok(h)
                 j == SkipSpaces(s, i + Len(lab))
             IN  [found |-> TRUE, group |-> SubSeq(s, j, WordRunEnd(s, j))]
        ELSE NoMatch

\* re.search(r'Confidence:\s*([0-9.]+)', response, re.IGNORECASE)
ConfidenceSearch(s) ==
    LET lab == <<"c","o","n","f","i","d","e","n","c","e",":">>
        ok(i) == /\ LabelAt(s, lab, i)
                 /\ SkipSpaces(s, i + Len(lab)) <= Len(s)
                 /\ IsDigitOrDot(s[SkipSpaces(s, i + Len(lab))])
    IN  IF \E i \in 1..Len(s) : ok(i)
        THEN LET i == CHOOSE i \in 1..Len(s) : ok(i) /\ \A h \in 1..(i-1) : ~ok(h)
                 j == SkipSpaces(s, i + Len(lab))
             IN  [found |-> TRUE, group |-> SubSeq(s, j, NumRunEnd(s, j))]
        ELSE NoMatch

\* re.search(r'Reasoning:\s*(.+)', response, re.IGNORECASE | re.DOTALL):
\* with DOTALL (.+) runs to the end of the reply; when only whitespace follows
\* the label, \s* gives its last character back to (.+)
ReasoningSearch(s) ==
    LET lab == <<"r","e","a","s","o","n","i","n","g",":">>
        ok(i) == LabelAt(s, lab, i) /\ i + Len(lab) <= Len(s)
    IN  IF \E i \in 1..Len(s) : ok(i)
        THEN LET i == CHOOSE i \in 1..Len(s) : ok(i) /\ \A h \in 1..(i-1) : ~ok(h)
                 j == SkipSpaces(s, i + Len(lab))
             IN  [found |-> TRUE,
                  group |-> IF j <= Len(s) THEN SubSeq(s, j, Len(s)) ELSE <<s[Len(s)]>>]
        ELSE NoMatch

\* A float is modelled exactly as a decimal m / 10^e without trailing zeros.
RECURSIVE Normalise(_)
Normalise(f) ==
    IF f.e > 0 /\ f.m % 10 = 0 THEN Normalise([m |-> f.m \div 10, e |-> f.e - 1]) ELSE f

DigitVal(c) == (CHOOSE i \in 1..10 : DigitChars[i] = c) - 1

RECURSIVE DigitsToInt(_)
DigitsToInt(ds) ==
    IF ds = <<>> THEN 0
    ELSE 10 * DigitsToInt(SubSeq(ds, 1, Len(ds) - 1)) + DigitVal(ds[Len(ds)])

\* whether float(g) accepts a string of digits and dots: at most one dot and
\* at least one digit; otherwise it raises ValueError
FloatAccepts(g) ==
    /\ Cardinality({i \in 1..Len(g) : g[i] = "."}) <= 1
    /\ \E i \in 1..Len(g) : IsDigit(g[i])

\* float(g) for an accepted string: the digits as an integer, scaled by the
\* number of digits after the dot
Float(g) ==
    LET digits == SelectSeq(g, IsDigit)
        hasDot == \E i \in 1..Len(g) : g[i] = "."
        dot    == CHOOSE i \in 1..Len(g) : g[i] = "."
    IN  Normalise([m |-> DigitsToInt(digits), e |-> IF hasDot THEN Len(g) - dot ELSE 0])

\* comparisons of decimals with the bounds of the confidence range
FloatLeqOne(f) == f.m <= 10 ^ f.e

FloatGeqZero(f) == f.m >= 0

DefaultSentiment == <<"n","e","u","t","r","a","l">>

DefaultConfidence == [m |-> 5, e |-> 1]

DefaultReasoning == <<"U","n","a","b","l","e"," ","t","o"," ","p","a","r","s","e"," ","r","e","s","p","o","n","s","e">>

ReasoningLimit == 200

\* The body of the try block stops at the first exception (float() raising
\* ValueError, line 232); `except Exception` (line 239) catches it and the
\* function returns whatever was assigned so far.
parse_sentiment_response(resp) ==
    LET sm     == SentimentSearch(resp)
        cm     == ConfidenceSearch(resp)
        rm     == ReasoningSearch(resp)
        raised == cm.found /\ ~FloatAccepts(cm.group)
    IN  [sentiment  |-> IF sm.found THEN Lower(sm.group) ELSE DefaultSentiment,
         confidence |-> IF cm.found /\ ~raised THEN Float(cm.group)
                        ELSE DefaultConfidence,
         reasoning  |-> IF ~raised /\ rm.found
                        THEN Take(Strip(rm.group), ReasoningLimit)
                        ELSE DefaultReasoning]

\* Backend replies: every combination of a Sentiment, a Confidence and a
\* Reasoning line, each absent, well-formed or malformed.
SentimentLines ==
    { <<>>,
      <<"S","e","n","t","i","m","e","n","t",":"," ","p","o","s","i","t","i","v","e","\n">>,
      <<"s","e","n","t","i","m","e","n","t",":"," ","N","E","G","A","T","I","V","E","\n">>,
      <<"S","e","n","t","i","m","e","n","t",":"," ","n","e","u","t","r","a","l","\n">>,
      <<"S","e","n","t","i","m","e","n","t",":"," ","M","i","x","e","d","\n">>,
      <<"S","e","n","t","i","m","e","n","t",":"," ","[","p","o","s","i","t","i","v","e","]","\n">> }

ConfidenceLines ==
    { <<>>,
      <<"C","o","n","f","i","d","e","n","c","e",":"," ","0",".","9","\n">>,
      <<"C","o","n","f","i","d","e","n","c","e",":"," ","0","\n">>,
      <<"C","o","n","f","i","d","e","n","c","e",":"," ","1",".","0","\n">>,
      <<"C","o","n","f","i","d","e","n","c","e",":"," ","1",".","4","\n">>,
      <<"C","o","n","f","i","d","e","n","c","e",":"," ","-","0",".","2","\n">>,
      <<"C","o","n","f","i","d","e","n","c","e",":"," ","1",".","2",".","3","\n">>,
      <<"C","o","n","f","i","d","e","n","c","e",":"," ","h","i","g","h","\n">> }

LongReasoningLen == 201

ReasoningLines ==
    { <<>>,
      <<"R","e","a","s","o","n","i","n","g",":"," ","c","l","e","a","r"," ","p","r","a","i","s","e">>,
      <<"R","e","a","s","o","n","i","n","g",":"," "," ","\n">>,
      <<"R","e","a","s","o","n","i","n","g",":">>,
      <<"R","e","a","s","o","n","i","n","g",":"," ">> \o Repeat("a", LongReasoningLen) }

Replies == { s \o c \o r : s \in SentimentLines, c \in ConfidenceLines, r \in ReasoningLines }

Idle == "idle"

\* the value item.get(key) gives for an absent key, and Python's None
None == "None"

NoPlatform == [platform |-> None, error |-> <<>>]

NoResult == [sentiment |-> <<>>, confidence |-> [m |-> 0, e |-> 0], reasoning |-> <<>>]

\* the values of the variables a specification does not use
ParseIdle == response = <<>> /\ parsed = NoResult /\ ppc = Idle

ReportIdle ==
    /\ reddit_data = <<>> /\ x_data = <<>> /\ report = Idle /\ files = <<>>
    /\ rpc = Idle

NoPage == [nav |-> TRUE, els |-> <<>>, failAt |-> 1]

NoScrape == [raised |-> FALSE, texts |-> <<>>]

ScrapeIdle == extractor = Idle /\ page = NoPage /\ scraped = NoScrape /\ spc = Idle

MainIdle ==
    /\ pc = Idle /\ acquired = 0 /\ released = FALSE /\ csv = <<>> /\ url = <<>>
    /\ platform = NoPlatform /\ texts = <<>> /\ idx = 0 /\ cur = NoResult
    /\ events = <<>> /\ outcome = Idle

InitParse ==
    /\ response \in Replies
    /\ parsed = NoResult
    /\ ppc = "call"
    /\ MainIdle
    /\ ReportIdle
    /\ ScrapeIdle

\* one call of parse_sentiment_response on the reply
ParseSentimentResponse ==
    /\ ppc = "call"
    /\ parsed' = parse_sentiment_response(response)
    /\ ppc' = "parsed"
    /\ UNCHANGED <<response, mainVars, reportVars, scrapeVars>>

NextParse == ParseSentimentResponse

SpecParse == InitParse /\ [][NextParse]_vars

-----------------------------------------------------------------------------
(* The reporter (automated_daily_sentiment_reporter.py)                    *)
(*                                                                         *)
(* A record of the batch analysis is a dict: a function whose domain holds *)
(* only the keys that are present.  Confidences are in hundredths          *)
(* (0.8 is 80) and percentages in tenths of a percent (33.3 is 333).       *)

MaxRecords == 3

LongTextLen == 101

\* item.get(key, default)
Get(item, key, default) == IF key \in DOMAIN item THEN item[key] ELSE default

BoundedSeq(S, n) == UNION {[1..k -> S] : k \in 0..n}

\* The records of the analysis: two that qualify as hot takes (distinguishable
\* by sentiment and text, one longer than the preview), one exactly at the
\* confidence threshold, one without 'intensity' carrying an unknown label,
\* and one without 'sentiment' and without 'confidence'.
HotShort(p) ==
    [platform |-> p, source_url |-> <<"u","1">>, text |-> <<"g","r","e","a","t"," ","n","e","w","s">>,
     sentiment |-> "positive", intensity |-> "high", confidence |-> 90]

HotLong(p) ==
    [platform |-> p, source_url |-> <<"u","2">>, text |-> Repeat("b", LongTextLen),
     sentiment |-> "negative", intensity |-> "high", confidence |-> 95]

AtThreshold(p) ==
    [platform |-> p, source_url |-> <<"u","3">>, text |-> <<"f","i","n","e">>,
     sentiment |-> "neutral", intensity |-> "high", confidence |-> 80]

NoIntensity(p) ==
    [platform |-> p, source_url |-> <<"u","4">>, text |-> <<"h","m","m">>,
     sentiment |-> "mixed", confidence |-> 90]

NoConfidence(p) ==
    [platform |-> p, source_url |-> <<"u","5">>, text |-> <<"?","?","?">>, intensity |-> "high"]

RedditSamples ==
    {HotShort("reddit"), HotLong("reddit"), AtThreshold("reddit"),
     NoIntensity("reddit"), NoConfidence("reddit")}

XSamples == {HotShort("x"), AtThreshold("x"), NoConfidence("x")}

\* round(n / total * 100, 1) in tenths of a percent; Python rounds a tie to
\* the even neighbour
RoundPct(n, total) ==
    LET q == (n * 1000) \div total
        r == (n * 1000) % total
    IN  IF 2 * r < total THEN q
        ELSE IF 2 * r > total THEN q + 1
        ELSE IF q % 2 = 0 THEN q ELSE q + 1

CountSentiment(data, label) ==
    Cardinality({i \in 1..Len(data) : Get(data[i], "sentiment", None) = label})

\* a variant that counts the records labelled 'neutral' instead of taking the
\* remainder
calculate_sentiment_stats_counted(data) ==
    IF data = <<>> THEN [positive |-> 0, negative |-> 0, neutral |-> 0, count |-> 0]
    ELSE LET total == Len(data)
         IN  [positive |-> RoundPct(CountSentiment(data, "positive"), total),
              negative |-> RoundPct(CountSentiment(data, "negative"), total),
              neutral  |-> RoundPct(CountSentiment(data, "neutral"), total),
              count    |-> total]

calculate_sentiment_stats(data) ==
    IF data = <<>> THEN [positive |-> 0, negative |-> 0, neutral |-> 0, count |-> 0]
    ELSE LET total    == Len(data)
             positive == CountSentiment(data, "positive")
             negative == CountSentiment(data, "negative")
             neutral  == total - positive - negative
         IN  [positive |-> RoundPct(positive, total),
              negative |-> RoundPct(negative, total),
              neutral  |-> RoundPct(neutral, total),
              count    |-> total]

calculate_overall_stats(rd, xd) == calculate_sentiment_stats(rd \o xd)

\* the placeholder the source returns
extract_trending_topics(rd, xd) ==
    << [topic |-> "AI Technology", mentions |-> 156, sentiment |-> "positive"],
       [topic |-> "Economic Policy", mentions |-> 89, sentiment |-> "negative"],
       [topic |-> "Climate Change", mentions |-> 67, sentiment |-> "neutral"] >>

HotConfidence == 80

MaxHotTakes == 5

PreviewLen == 100

CsvPreviewLen == 200

Ellipsis == <<".",".",".">>

HotTakeEntry(item) ==
    [platform     |-> Get(item, "platform", None),
     text_preview |-> Take(Get(item, "text", <<>>), PreviewLen) \o Ellipsis,
     sentiment    |-> Get(item, "sentiment", None),
     intensity    |-> Get(item, "intensity", None),
     url          |-> Get(item, "source_url", None)]

\* a variant whose threshold is inclusive
IsHotTakeInclusive(item) ==
    Get(item, "confidence", 0) >= HotConfidence /\ Get(item, "intensity", None) = "high"

IsHotTake(item) ==
    Get(item, "confidence", 0) > HotConfidence /\ Get(item, "intensity", None) = "high"

identify_hot_takes(rd, xd) ==
    LET hot == SelectSeq(rd \o xd, IsHotTake)
    IN  Take([i \in 1..Len(hot) |-> HotTakeEntry(hot[i])], MaxHotTakes)

RedditCsv == "reddit_analysis.csv"

XCsv == "x_analysis.csv"

ReportJson == "daily_report.json"

generate_daily_report(rd, xd) ==
    [summary |-> [total_posts_analyzed |-> Len(rd) + Len(xd),
                  reddit_posts |-> Len(rd),
                  x_posts |-> Len(xd)],
     sentiment_breakdown |-> [reddit  |-> calculate_sentiment_stats(rd),
                              x       |-> calculate_sentiment_stats(xd),
                              overall |-> calculate_overall_stats(rd, xd)],
     trending_topics |-> extract_trending_topics(rd, xd),
     hot_takes |-> identify_hot_takes(rd, xd),
     evidence_files |-> <<RedditCsv, XCsv, ReportJson>>]

CsvHeader ==
    <<"timestamp", "platform", "source_url", "text_preview", "sentiment",
      "intensity", "confidence", "emotional_indicators", "reasoning">>

CsvRow(item) ==
    <<Get(item, "timestamp", ""), Get(item, "platform", ""),
      Get(item, "source_url", ""), Take(Get(item, "text", <<>>), CsvPreviewLen),
      Get(item, "sentiment", ""), Get(item, "intensity", ""),
      Get(item, "confidence", ""), Get(item, "emotional_indicators", <<>>),
      Get(item, "reasoning", "")>>

\* a variant without the early return on empty data: it writes the header
save_csv_always(data, filename, fs) ==
    (filename :> (<<CsvHeader>> \o [i \in 1..Len(data) |-> CsvRow(data[i])])) @@ fs

\* fs is the file system before the call, the value the one after it
save_csv(data, filename, fs) ==
    IF data = <<>> THEN fs
    ELSE (filename :> (<<CsvHeader>> \o [i \in 1..Len(data) |-> CsvRow(data[i])])) @@ fs

save_evidence_files(rd, xd, report_data, fs) ==
    (ReportJson :> report_data) @@ save_csv(xd, XCsv, save_csv(rd, RedditCsv, fs))

InitReport ==
    /\ reddit_data \in BoundedSeq(RedditSamples, MaxRecords)
    /\ x_data \in BoundedSeq(XSamples, MaxRecords)
    /\ report = Idle
    /\ files = <<>>
    /\ rpc = "start"
    /\ MainIdle
    /\ ParseIdle
    /\ ScrapeIdle

GenerateDailyReport ==
    /\ rpc = "start"
    /\ report' = generate_daily_report(reddit_data, x_data)
    /\ rpc' = "generated"
    /\ UNCHANGED <<reddit_data, x_data, files, mainVars, parseVars, scrapeVars>>

SaveEvidenceFiles ==
    /\ rpc = "generated"
    /\ files' = save_evidence_files(reddit_data, x_data, report, files)
    /\ rpc' = "saved"
    /\ UNCHANGED <<reddit_data, x_data, report, mainVars, parseVars, scrapeVars>>

NextReport == GenerateDailyReport \/ SaveEvidenceFiles

SpecReport == InitReport /\ [][NextReport]_vars

-----------------------------------------------------------------------------
(* The analyzer (reddit_x_sentiment_analyzer.py): main()                   *)

\* urlparse(url).netloc for a URL without square brackets: the scheme is
\* what precedes the first ':' when it starts with a letter and holds only
\* scheme characters; the network location is what follows a leading '//'
\* up to the first '/', '?' or '#'
IsLetter(c) == c \in Range(LowerLetters) \cup Range(UpperLetters)

IsSchemeChar(c) == IsLetter(c) \/ IsDigit(c) \/ c \in {"+", "-", "."}

AfterScheme(u) ==
    IF \E i \in 1..Len(u) : u[i] = ":"
    THEN LET i == CHOOSE i \in 1..Len(u) : u[i] = ":" /\ \A h \in 1..(i-1) : u[h] # ":"
         IN  IF i > 1 /\ IsLetter(u[1]) /\ \A h \in 1..(i-1) : IsSchemeChar(u[h])
             THEN SubSeq(u, i + 1, Len(u))
             ELSE u
    ELSE u

UrlNetloc(u) ==
    LET rest  == AfterScheme(u)
        delim(i) == rest[i] \in {"/", "?", "#"}
    IN  IF Len(rest) >= 2 /\ rest[1] = "/" /\ rest[2] = "/"
        THEN IF \E i \in 3..Len(rest) : delim(i)
             THEN SubSeq(rest, 3,
                         (CHOOSE i \in 3..Len(rest) :
                              delim(i) /\ \A h \in 3..(i-1) : ~delim(h)) - 1)
             ELSE SubSeq(rest, 3, Len(rest))
        ELSE <<>>

RedditHost == <<"r","e","d","d","i","t",".","c","o","m">>

TwitterHost == <<"t","w","i","t","t","e","r",".","c","o","m">>

XHost == <<"x",".","c","o","m">>

UnsupportedPrefix == <<"U","n","s","u","p","p","o","r","t","e","d"," ","p","l","a","t","f","o","r","m",":"," ">>

\* a variant that looks for the fragments in the whole URL
detect_platform_whole_url(u) ==
    LET domain == Lower(u)
    IN  IF Contains(domain, RedditHost) THEN [platform |-> "reddit", error |-> <<>>]
        ELSE IF Contains(domain, TwitterHost) \/ Contains(domain, XHost)
             THEN [platform |-> "x", error |-> <<>>]
             ELSE [platform |-> None, error |-> UnsupportedPrefix \o Lower(UrlNetloc(u))]

\* the platform, or the message of the ValueError raised
detect_platform(u) ==
    LET domain == Lower(UrlNetloc(u))
    IN  IF Contains(domain, RedditHost) THEN [platform |-> "reddit", error |-> <<>>]
        ELSE IF Contains(domain, TwitterHost) \/ Contains(domain, XHost)
             THEN [platform |-> "x", error |-> <<>>]
             ELSE [platform |-> None, error |-> UnsupportedPrefix \o domain]

\* what the user may type at the prompt
UrlInputs ==
    { <<"h","t","t","p","s",":","/","/","w","w","w",".","r","e","d","d","i","t",".","c","o","m","/","r","/","a","l","l","/","t","o","p">>,
      <<"h","t","t","p","s",":","/","/","x",".","c","o","m","/","e","x","p","l","o","r","e">>,
      <<"h","t","t","p","s",":","/","/","e","x","a","m","p","l","e",".","c","o","m">>,
      <<" ","H","T","T","P","S",":","/","/","O","l","d",".","R","e","d","d","i","t",".","C","O","M","/","r","/","a","\n">>,
      <<"h","t","t","p","s",":","/","/","t","w","i","t","t","e","r",".","c","o","m","/","a","?","b">>,
      <<"r","e","d","d","i","t",".","c","o","m","/","r","/","a">>,
      <<"h","t","t","p","s",":","/","/","e","x","a","m","p","l","e",".","c","o","m","/","r","e","d","d","i","t",".","c","o","m">>,
      <<"h","t","t","p","s",":","/","/","r","e","d","d","i","t",".","c","o","m",".","x",".","c","o","m","#","f">>,
      <<"1","x",":","/","/","x",".","c","o","m","/">>,
      <<" "," ">>,
      <<>> }

MaxElems == 2

MinTextLen == 10

CsvTextLimit == 500

LongElemLen == 501

\* the strings the page's elements can hold: 9, 10 (padded with whitespace),
\* 11 and more than 500 characters
ElementTexts ==
    { <<"t","o","o"," ","s","h","o","r","t">>,
      <<" "," ","t","e","n"," ","c","h","a","r","s","!"," ","\n">>,
      <<"e","l","e","v","e","n"," ","c","h","a","r">>,
      Repeat("c", LongElemLen) }

\* The extraction of both scrapers.  els are the texts of the elements found;
\* failAt = 0: the wait or the scrolling raises; failAt = k in 1..Len(els):
\* reading element k raises; failAt = Len(els) + 1: nothing raises.  The
\* except clause returns what was captured before the failure.
KeepText(raw) == Strip(raw) # <<>> /\ Len(Strip(raw)) > MinTextLen

Captured(els, failAt) ==
    LET read == SubSeq(els, 1, failAt - 1)
        kept == SelectSeq(read, KeepText)
    IN  [i \in 1..Len(kept) |-> Strip(kept[i])]

scrape_reddit_comments(els, failAt) == Captured(els, failAt)

scrape_x_replies(els, failAt) == Captured(els, failAt)

\* the replies of the backend the pipeline is checked with
MainReplies ==
    { <<"S","e","n","t","i","m","e","n","t",":"," ","p","o","s","i","t","i","v","e","\n","C","o","n","f","i","d","e","n","c","e",":"," ","0",".","9","\n","R","e","a","s","o","n","i","n","g",":"," ","c","l","e","a","r"," ","p","r","a","i","s","e">>,
      <<"S","e","n","t","i","m","e","n","t",":"," ","M","i","x","e","d","\n","C","o","n","f","i","d","e","n","c","e",":"," ","1",".","4","\n","R","e","a","s","o","n","i","n","g",":"," ","c","l","e","a","r"," ","p","r","a","i","s","e">>,
      <<"S","e","n","t","i","m","e","n","t",":"," ","n","e","g","a","t","i","v","e","\n","C","o","n","f","i","d","e","n","c","e",":"," ","1",".","2",".","3","\n","R","e","a","s","o","n","i","n","g",":"," ","c","l","e","a","r"," ","p","r","a","i","s","e">> }

DriverErrorText == <<"E","r","r","o","r",":"," ","t","i","m","e","o","u","t">>

NoResponseText == <<"U","n","a","b","l","e"," ","t","o"," ","g","e","t"," ","r","e","s","p","o","n","s","e"," ","f","r","o","m"," ","P","e","r","p","l","e","x","i","t","y">>

InferenceFailed ==
    [sentiment |-> DefaultSentiment, confidence |-> DefaultConfidence,
     reasoning |-> DriverErrorText]

NoResponse ==
    [sentiment |-> DefaultSentiment, confidence |-> DefaultConfidence,
     reasoning |-> NoResponseText]

\* o is what the browser session does during the call: it raises, it shows
\* no response element, or it shows a reply
InferOutcomes ==
    {[kind |-> "exception", reply |-> <<>>], [kind |-> "no_response", reply |-> <<>>]}
    \cup {[kind |-> "reply", reply |-> r] : r \in MainReplies}

analyze_sentiment_with_perplexity(o) ==
    CASE o.kind = "exception" -> InferenceFailed
      [] o.kind = "no_response" -> NoResponse
      [] o.kind = "reply" -> parse_sentiment_response(o.reply)

MainCsvHeader ==
    <<"platform", "url", "comment_text", "sentiment", "confidence", "ai_reasoning">>

\* the file after the row is appended (the timestamp column is left out)
log_to_csv(rows, p, u, text, sentiment, confidence, reasoning) ==
    Append(rows, <<p, u, Take(text, CsvTextLimit), sentiment, confidence, reasoning>>)

Init ==
    /\ pc = "construct"
    /\ acquired = 0
    /\ released = FALSE
    /\ csv = <<>>
    /\ url = <<>>
    /\ platform = NoPlatform
    /\ texts = <<>>
    /\ idx = 0
    /\ cur = NoResult
    /\ events = <<>>
    /\ outcome = "running"
    /\ ParseIdle
    /\ ReportIdle
    /\ ScrapeIdle

\* SentimentAnalyzer.__init__, first half: setup_driver.  webdriver.Chrome
\* may raise (no session), execute_script may raise (session started); both
\* leave main() before its try block.
SetupDriver ==
    /\ pc = "construct"
    /\ \E r \in {"chrome_raises", "script_raises", "ok"} :
           /\ acquired' = IF r = "chrome_raises" THEN acquired ELSE acquired + 1
           /\ pc' = IF r = "ok" THEN "init_csv" ELSE "exit"
           /\ outcome' = IF r = "ok" THEN outcome ELSE "setup_driver_raised"
    /\ UNCHANGED <<released, csv, url, platform, texts, idx, cur, events,
                   parseVars, reportVars, scrapeVars>>

\* SentimentAnalyzer.__init__, second half: init_csv writes the header, or
\* open() raises and the exception leaves main() before its try block
InitCsv ==
    /\ pc = "init_csv"
    /\ \E ok \in BOOLEAN :
           /\ csv' = IF ok THEN <<MainCsvHeader>> ELSE csv
           /\ pc' = IF ok THEN "input" ELSE "exit"
           /\ outcome' = IF ok THEN outcome ELSE "init_csv_raised"
    /\ UNCHANGED <<acquired, released, url, platform, texts, idx, cur, events,
                   parseVars, reportVars, scrapeVars>>

\* url = input(...).strip(); an empty URL returns through the finally clause
ReadUrl ==
    /\ pc = "input"
    /\ \E raw \in UrlInputs :
           /\ url' = Strip(raw)
           /\ pc' = IF Strip(raw) = <<>> THEN "finally" ELSE "validate"
           /\ outcome' = IF Strip(raw) = <<>> THEN "no_url" ELSE outcome
    /\ UNCHANGED <<acquired, released, csv, platform, texts, idx, cur, events,
                   parseVars, reportVars, scrapeVars>>

\* analyzer.detect_platform(url) in main(); ValueError returns through finally
Validate ==
    /\ pc = "validate"
    /\ platform' = detect_platform(url)
    /\ pc' = IF platform'.platform = None THEN "finally" ELSE "analyze"
    /\ outcome' = IF platform'.platform = None THEN "unsupported" ELSE outcome
    /\ UNCHANGED <<acquired, released, csv, url, texts, idx, cur, events,
                   parseVars, reportVars, scrapeVars>>

\* analyze_url up to the loop: detect_platform again, then the scraper of the
\* platform.  driver.get stands before the scraper's try block: when it
\* raises, the exception reaches main()'s `except Exception`.
Scrape ==
    /\ pc = "analyze"
    /\ platform' = detect_platform(url)
    /\ \E nav \in BOOLEAN, els \in BoundedSeq(ElementTexts, MaxElems) :
         \E failAt \in 0..(Len(els) + 1) :
           LET found == IF platform'.platform = "reddit"
                        THEN scrape_reddit_comments(els, failAt)
                        ELSE scrape_x_replies(els, failAt)
           IN  /\ texts' = IF nav THEN found ELSE texts
               /\ idx' = IF nav /\ found # <<>> THEN 1 ELSE idx
               /\ pc' = IF nav /\ found # <<>> THEN "infer" ELSE "finally"
               /\ outcome' = IF ~nav THEN "error"
                             ELSE IF found = <<>> THEN "complete" ELSE outcome
    /\ UNCHANGED <<acquired, released, csv, url, cur, events, parseVars, reportVars, scrapeVars>>

\* analyze_sentiment_with_perplexity(text) returns: a parsed reply, or the
\* default when the session raised or showed no response
Infer ==
    /\ pc = "infer"
    /\ \E o \in InferOutcomes : cur' = analyze_sentiment_with_perplexity(o)
    /\ events' = events \o <<"call", "ret">>
    /\ pc' = "log"
    /\ UNCHANGED <<acquired, released, csv, url, platform, texts, idx, outcome,
                   parseVars, reportVars, scrapeVars>>

\* KeyboardInterrupt during the inference call: `except Exception` does not
\* catch it, the call does not return
InferInterrupted ==
    /\ pc = "infer"
    /\ events' = Append(events, "call")
    /\ pc' = "finally"
    /\ outcome' = "cancelled"
    /\ UNCHANGED <<acquired, released, csv, url, platform, texts, idx, cur,
                   parseVars, reportVars, scrapeVars>>

\* log_to_csv appends the row, or open() / writerow raises
Log ==
    /\ pc = "log"
    /\ \E ok \in BOOLEAN :
           /\ csv' = IF ok
                     THEN log_to_csv(csv, platform.platform, url, texts[idx],
                                     cur.sentiment, cur.confidence, cur.reasoning)
                     ELSE csv
           /\ events' = IF ok THEN Append(events, "row") ELSE events
           /\ pc' = IF ok THEN "delay" ELSE "finally"
           /\ outcome' = IF ok THEN outcome ELSE "error"
    /\ UNCHANGED <<acquired, released, url, platform, texts, idx, cur,
                   parseVars, reportVars, scrapeVars>>

\* a variant of the loop's tail that goes on to the next text at once when
\* the inference gave the failure default
DelaySkippedOnFailure ==
    /\ pc = "delay"
    /\ events' = IF cur = InferenceFailed THEN events ELSE Append(events, "delay")
    /\ idx' = idx + 1
    /\ pc' = IF idx < Len(texts) THEN "infer" ELSE "finally"
    /\ outcome' = IF idx < Len(texts) THEN outcome ELSE "complete"
    /\ UNCHANGED <<acquired, released, csv, url, platform, texts, cur,
                   parseVars, reportVars, scrapeVars>>

\* time.sleep(3), then the next text or the end of analyze_url
Delay ==
    /\ pc = "delay"
    /\ events' = Append(events, "delay")
    /\ idx' = idx + 1
    /\ pc' = IF idx < Len(texts) THEN "infer" ELSE "finally"
    /\ outcome' = IF idx < Len(texts) THEN outcome ELSE "complete"
    /\ UNCHANGED <<acquired, released, csv, url, platform, texts, cur,
                   parseVars, reportVars, scrapeVars>>

\* KeyboardInterrupt inside main()'s try block, outside the inference call
Interrupt ==
    /\ pc \in {"input", "validate", "analyze", "log", "delay"}
    /\ pc' = "finally"
    /\ outcome' = "cancelled"
    /\ UNCHANGED <<acquired, released, csv, url, platform, texts, idx, cur,
                   events, parseVars, reportVars, scrapeVars>>

\* the finally clause: analyzer.close() calls driver.quit()
Close ==
    /\ pc = "finally"
    /\ released' = TRUE
    /\ pc' = "exit"
    /\ UNCHANGED <<acquired, csv, url, platform, texts, idx, cur, events,
                   outcome, parseVars, reportVars, scrapeVars>>

Next ==
    \/ SetupDriver
    \/ InitCsv
    \/ ReadUrl
    \/ Validate
    \/ Scrape
    \/ Infer
    \/ InferInterrupted
    \/ Log
    \/ Delay
    \/ Interrupt
    \/ Close

Spec == Init /\ [][Next]_vars

-----------------------------------------------------------------------------
(* One call of an extractor, with every step of the driver free to raise   *)

\* What the driver does during a call: nav = FALSE: driver.get raises; els:
\* the texts of the elements find_elements returns; failAt as for Captured.
Pages ==
    { [nav |-> n, els |-> e, failAt |-> f] :
          n \in BOOLEAN, e \in BoundedSeq(ElementTexts, MaxElems), f \in 0..(MaxElems + 1) }

\* driver.get(url) stands before the try block (line 87): its exception
\* leaves the function; everything after it is caught by `except Exception`
scrape_reddit_comments_call(p) ==
    IF p.nav THEN [raised |-> FALSE, texts |-> scrape_reddit_comments(p.els, p.failAt)]
    ELSE [raised |-> TRUE, texts |-> <<>>]

\* the same for line 129
scrape_x_replies_call(p) ==
    IF p.nav THEN [raised |-> FALSE, texts |-> scrape_x_replies(p.els, p.failAt)]
    ELSE [raised |-> TRUE, texts |-> <<>>]

InitScrape ==
    /\ extractor \in {"reddit", "x"}
    /\ page \in {p \in Pages : p.failAt <= Len(p.els) + 1}
    /\ scraped = NoScrape
    /\ spc = "call"
    /\ MainIdle
    /\ ParseIdle
    /\ ReportIdle

ScrapeRedditComments ==
    /\ spc = "call"
    /\ extractor = "reddit"
    /\ scraped' = scrape_reddit_comments_call(page)
    /\ spc' = "returned"
    /\ UNCHANGED <<extractor, page, mainVars, parseVars, reportVars>>

ScrapeXReplies ==
    /\ spc = "call"
    /\ extractor = "x"
    /\ scraped' = scrape_x_replies_call(page)
    /\ spc' = "returned"
    /\ UNCHANGED <<extractor, page, mainVars, parseVars, reportVars>>

NextScrape == ScrapeRedditComments \/ ScrapeXReplies

SpecScrape == InitScrape /\ [][NextScrape]_vars

-----------------------------------------------------------------------------
(* Properties of the reporter, checked under SpecReport                    *)

PctSum(stats) == stats.positive + stats.negative + stats.neutral

GroupData(g) ==
    CASE g = "reddit" -> reddit_data
      [] g = "x" -> x_data
      [] g = "overall" -> reddit_data \o x_data

Groups == {"reddit", "x", "overall"}

HotPositions ==
    LET all == reddit_data \o x_data
    IN  {i \in 1..Len(all) :
            /\ "confidence" \in DOMAIN all[i] /\ all[i].confidence > 80
            /\ "intensity" \in DOMAIN all[i] /\ all[i].intensity = "high"}

\* the k-th smallest hot position
HotPosition(k) ==
    CHOOSE i \in HotPositions : Cardinality({j \in HotPositions : j < i}) = k - 1

\* C4: identify_hot_takes returns at most 5 entries, exactly the first 5 (or
\* all) records with confidence > 0.8 and intensity "high", in the order of
\* reddit_data followed by x_data; records without confidence or without
\* intensity are never returned.
C4_HotTakesFirstFive ==
    rpc # "start" =>
        LET all == reddit_data \o x_data
            n   == Cardinality(HotPositions)
        IN  /\ Len(report.hot_takes) <= 5
            /\ Len(report.hot_takes) = IF n < 5 THEN n ELSE 5
            /\ \A k \in 1..Len(report.hot_takes) :
                   LET item == all[HotPosition(k)]
                   IN  /\ report.hot_takes[k].platform = item.platform
                       /\ report.hot_takes[k].url = item.source_url
                       /\ report.hot_takes[k].sentiment = item.sentiment
                       /\ report.hot_takes[k].intensity = "high"
                       /\ report.hot_takes[k].text_preview =
                              SubSeq(item.text, 1, IF Len(item.text) < 100
                                                   THEN Len(item.text) ELSE 100)
                              \o <<".", ".", ".">>

\* C4 witness: six qualifying records over both lists, the first longer than
\* the preview; the sixth is cut
C4_Witness ==
    /\ rpc = "generated"
    /\ Cardinality(HotPositions) = 6
    /\ Len(report.hot_takes) = 5
    /\ Len(report.hot_takes[1].text_preview) = 103
    /\ report.hot_takes[4].platform = "x"

\* C6: save_evidence_files creates no CSV file for an empty collection and
\* still writes the report document; the report of two empty collections has
\* total analyzed 0 and zero statistics for every group.
C6_EmptyCollectionNoCsv ==
    /\ rpc = "saved" =>
        /\ (reddit_data = <<>> => RedditCsv \notin DOMAIN files)
        /\ (x_data = <<>> => XCsv \notin DOMAIN files)
        /\ ReportJson \in DOMAIN files
        /\ files[ReportJson] = report
    /\ (rpc # "start" /\ reddit_data = <<>> /\ x_data = <<>>) =>
        /\ report.summary.total_posts_analyzed = 0
        /\ \A g \in Groups :
               report.sentiment_breakdown[g] =
                   [positive |-> 0, negative |-> 0, neutral |-> 0, count |-> 0]

\* C6 witness: both collections empty, the evidence saved
C6_Witness ==
    /\ rpc = "saved"
    /\ reddit_data = <<>> /\ x_data = <<>>
    /\ DOMAIN files = {ReportJson}
    /\ files[ReportJson].summary.total_posts_analyzed = 0

-----------------------------------------------------------------------------
(* Properties of parse_sentiment_response, checked under SpecParse         *)

\* C2: the confidence returned by parse_sentiment_response lies in [0.0, 1.0].
\* The parser returns float() of the matched digits unclamped, so this fails.
C2_ConfidenceInRange ==
    ppc = "parsed" => FloatGeqZero(parsed.confidence) /\ FloatLeqOne(parsed.confidence)

\* what each field is when it is decided from its own labelled line alone
OwnSentiment(resp) ==
    IF SentimentSearch(resp).found THEN Lower(SentimentSearch(resp).group)
    ELSE DefaultSentiment

OwnConfidence(resp) ==
    IF ConfidenceSearch(resp).found /\ FloatAccepts(ConfidenceSearch(resp).group)
    THEN Float(ConfidenceSearch(resp).group)
    ELSE DefaultConfidence

OwnReasoning(resp) ==
    IF ReasoningSearch(resp).found
    THEN Take(Strip(ReasoningSearch(resp).group), 200)
    ELSE DefaultReasoning

\* C3: parse_sentiment_response decides the three fields independently: each
\* is the value of its own labelled line when that line is present and
\* well-formed, and its default otherwise.  A malformed Confidence value
\* makes float() raise before the Reasoning line is read, so this fails.
C3_FieldsIndependent ==
    ppc = "parsed" =>
        /\ parsed.sentiment = OwnSentiment(response)
        /\ parsed.confidence = OwnConfidence(response)
        /\ parsed.reasoning = OwnReasoning(response)

-----------------------------------------------------------------------------
(* Properties of main(), checked under Spec                                *)

ExpectedPlatform ==
    LET host    == Lower(UrlNetloc(url))
        reddit  == Contains(host, <<"r","e","d","d","i","t",".","c","o","m">>)
        twitter == Contains(host, <<"t","w","i","t","t","e","r",".","c","o","m">>)
        x       == Contains(host, <<"x",".","c","o","m">>)
    IN  /\ reddit => platform = [platform |-> "reddit", error |-> <<>>]
        /\ (~reddit /\ (x \/ twitter)) => platform = [platform |-> "x", error |-> <<>>]
        /\ (~reddit /\ ~x /\ ~twitter) =>
               /\ platform.platform = None
               /\ platform.error = <<"U","n","s","u","p","p","o","r","t","e","d"," ","p","l","a","t","f","o","r","m",":"," ">> \o host
        /\ url = <<"h","t","t","p","s",":","/","/","w","w","w",".","r","e","d","d","i","t",".","c","o","m","/","r","/","a","l","l","/","t","o","p">> => platform.platform = "reddit"
        /\ url = <<"h","t","t","p","s",":","/","/","x",".","c","o","m","/","e","x","p","l","o","r","e">> => platform.platform = "x"
        /\ url = <<"h","t","t","p","s",":","/","/","e","x","a","m","p","l","e",".","c","o","m">> =>
               /\ platform.platform = None
               /\ platform.error = <<"U","n","s","u","p","p","o","r","t","e","d"," ","p","l","a","t","f","o","r","m",":"," ","e","x","a","m","p","l","e",".","c","o","m">>

SentimentDomain == {<<"p","o","s","i","t","i","v","e">>, <<"n","e","g","a","t","i","v","e">>, <<"n","e","u","t","r","a","l">>}

\* C7: every sentiment the single-text pipeline emits (returned by the
\* inference call, then written by log_to_csv) is positive, negative or
\* neutral.  The parser returns whatever word follows "Sentiment:", so this
\* fails.
C7_SentimentInDomain ==
    /\ \A k \in 2..Len(csv) : csv[k][4] \in SentimentDomain
    /\ pc = "log" => cur.sentiment \in SentimentDomain

\* C8: a driver session is acquired at most once, and once setup_driver has
\* acquired it, it is released before the program ends, whichever later step
\* fails.  An exception in init_csv leaves the constructor, and main(), before
\* the try block whose finally clause closes the session, so this fails.
C8_SessionReleased ==
    /\ acquired <= 1
    /\ (pc = "exit" /\ acquired > 0 /\ outcome # "setup_driver_raised") => released

Returned == Cardinality({i \in 1..Len(events) : events[i] = "ret"})

\* C9: when the run of analyze_url has ended, the CSV holds exactly one data
\* row for every text unit whose inference call returned, in extraction
\* order, and no other row.  An interrupt or a write error between the
\* call's return and the row's write loses that unit's row, so this fails.
C9_RowPerReturnedUnit ==
    (pc = "exit" /\ Len(csv) >= 1) =>
        /\ Len(csv) - 1 = Returned
        /\ \A k \in 1..(Len(csv) - 1) :
               csv[k + 1][3] = SubSeq(texts[k], 1, IF Len(texts[k]) < 500
                                                    THEN Len(texts[k]) ELSE 500)

\* C10: between any two consecutive inference calls of analyze_url the
\* rate-limiting delay is executed, also when the earlier call failed.
C10_DelayBetweenCalls ==
    \A i, j \in 1..Len(events) :
        (i < j /\ events[i] = "call" /\ events[j] = "call") =>
            \E k \in (i + 1)..(j - 1) : events[k] = "delay"

\* C10 witness: a second inference call was made after the first one failed
\* and its default row was logged
C10_Witness ==
    /\ Cardinality({i \in 1..Len(events) : events[i] = "call"}) = 2
    /\ Len(csv) >= 2
    /\ csv[2][6] = <<"E","r","r","o","r",":"," ","t","i","m","e","o","u","t">>
    /\ csv[2][4] = <<"n","e","u","t","r","a","l">>

-----------------------------------------------------------------------------
(* Properties of the extractors, checked under SpecScrape                  *)

\* C11: a driver error at any step of extraction (navigation, waiting,
\* scrolling, reading an element) never leaves the extractor: it returns a
\* sequence, empty when the failure came before any text was captured.
\* driver.get stands before the try block, so a navigation error leaves the
\* extractor and this fails.
C11_ExtractorNeverRaises ==
    spc = "returned" =>
        /\ ~scraped.raised
        /\ (~page.nav \/ page.failAt <= 1) => scraped.texts = <<>>

AtLeastTen(t) == Len(t) >= 10

\* C12: when nothing fails, the extractor returns exactly the captured
\* strings whose stripped length is at least 10, in capture order.  The code
\* keeps a string only when its length is greater than 10, so a string of
\* exactly 10 characters is dropped and this fails.
C12_KeepsTenOrMore ==
    (spc = "returned" /\ page.nav /\ page.failAt = Len(page.els) + 1) =>
        scraped.texts =
            SelectSeq([i \in 1..Len(page.els) |-> Strip(page.els[i])], AtLeastTen)

=============================================================================
